---- MODULE Spec2Model ----
(***************************************************************************)
(* Model of ShowMappings.py: one run of the script.  A run reads the       *)
(* router JSON file and decodes its first 15 bitmask entries, reads the    *)
(* MIDI names file (names and "Order"), draws the node-link diagram and    *)
(* then the matrix diagram.  Strings are sequences of one-character        *)
(* strings, so that int(), split() and strip() are modelled by what they   *)
(* do.  The drawing surface (matplotlib) is modelled by the calls it       *)
(* receives: plotted points, texts, lines, tick labels and savefig.        *)
(***************************************************************************)
EXTENDS Integers, Sequences, FiniteSets, TLC

VARIABLES pc, router_file, mappings, names_file, midi_names, order_list,
          node_to_y_index, diag_points, diag_text, diag_lines, diag_save,
          matrix_points, matrix_labels, matrix_save, stdout

vars == <<pc, router_file, mappings, names_file, midi_names, order_list,
          node_to_y_index, diag_points, diag_text, diag_lines, diag_save,
          matrix_points, matrix_labels, matrix_save, stdout>>

diagram_vars == <<node_to_y_index, diag_points, diag_text, diag_lines, diag_save>>
matrix_vars == <<matrix_points, matrix_labels, matrix_save>>

(***************************************************************************)
(* Bounds of the model.                                                    *)
(***************************************************************************)
\* longest router entry string of the decoding specification
MaxEntryLen == 4
\* longest router list of the decoding specification (one past the 15 used)
MaxRouterLen == 16
\* longest router list of a full run
MaxRunRouterLen == 2
\* longest "Order" string of a full run
MaxOrderLen == 3
\* longest order list handed directly to draw_mapping_diagram
MaxOrderListLen == 4

\* num_nodes in draw_mapping_diagram; also the slice and the bit count
NumNodes == 15
Slots == 1..NumNodes

(***************************************************************************)
(* Python values.                                                          *)
(***************************************************************************)
\* None, and a value that is not None
None == [isNone |-> TRUE, val |-> <<>>]
Some(v) == [isNone |-> FALSE, val |-> v]
\* truth value of None, a dict or a list
Truthy(opt) == ~opt.isNone /\ DOMAIN opt.val # {}
\* truth value of a string or None (dict.get of a name)
TruthyStr(opt) == ~opt.isNone /\ opt.val # <<>>

\* JSON values: a string, or anything else (null, number, list)
JStr(s) == [t |-> "str", s |-> s]
JNull == [t |-> "null", s |-> <<>>]
JNum == [t |-> "num", s |-> <<>>]

\* d[k] = v on a dict
DictSet(d, k, v) == [x \in (DOMAIN d) \cup {k} |-> IF x = k THEN v ELSE d[x]]
\* d.get(k)
DictGet(d, k) == IF k \in DOMAIN d THEN Some(d[k]) ELSE None

\* a printed line: what it reports and the slot it names (0 when none)
Msg(tag) == <<tag, 0>>

\* all sequences over S of length at most n
SeqsUpTo(S, n) == UNION {[1..k -> S] : k \in 0..n}

SeqRange(s) == {s[k] : k \in 1..Len(s)}

(***************************************************************************)
(* int(value, 16) and int(value)                                           *)
(***************************************************************************)
HexDigits == <<"0","1","2","3","4","5","6","7","8","9","a","b","c","d","e","f">>
DecDigits == <<"0","1","2","3","4","5","6","7","8","9">>

IsDigit(c, digits) == \E k \in 1..Len(digits) : digits[k] = c
DigitVal(c, digits) == (CHOOSE k \in 1..Len(digits) : digits[k] = c) - 1

RECURSIVE DigitsNum(_, _)
DigitsNum(s, digits) ==
    IF s = <<>> THEN 0
    ELSE Len(digits) * DigitsNum(SubSeq(s, 1, Len(s) - 1), digits)
         + DigitVal(s[Len(s)], digits)

IsSpace(c) == c = " "

RECURSIVE LStrip(_)
LStrip(s) == IF s # <<>> /\ IsSpace(s[1]) THEN LStrip(Tail(s)) ELSE s
RECURSIVE RStrip(_)
RStrip(s) == IF s # <<>> /\ IsSpace(s[Len(s)])
             THEN RStrip(SubSeq(s, 1, Len(s) - 1)) ELSE s
\* str.strip()
Strip(s) == RStrip(LStrip(s))

\* int(s, base) of a string: surrounding whitespace, an optional sign, then
\* one or more digits; anything else raises ValueError (ok = FALSE)
PyIntStr(s, digits) ==
    LET t == Strip(s)
        signed == t # <<>> /\ t[1] \in {"-", "+"}
        body == IF signed THEN Tail(t) ELSE t
        good == body # <<>> /\ \A k \in 1..Len(body) : IsDigit(body[k], digits)
        mag == IF good THEN DigitsNum(body, digits) ELSE 0
    IN  [ok |-> good,
         v |-> IF signed /\ t[1] = "-" THEN 0 - mag ELSE mag]

\* int(value, 16) of a JSON value: TypeError for anything but a string
PyIntBase16(value) ==
    IF value.t # "str" THEN [ok |-> FALSE, v |-> 0]
    ELSE PyIntStr(value.s, HexDigits)

(***************************************************************************)
(* read_and_extract_router_data                                            *)
(***************************************************************************)
\* (int_value >> j) & 1
BitSet(int_value, j) == (int_value \div (2^j)) % 2 = 1

\* the inner loop: for j in range(15), append j + 1 when bit j is set
RECURSIVE connected_outputs_from(_, _)
connected_outputs_from(int_value, j) ==
    IF j >= NumNodes THEN <<>>
    ELSE (IF BitSet(int_value, j) THEN <<j + 1>> ELSE <<>>)
         \o connected_outputs_from(int_value, j + 1)

\* the inner loop run over bits 0..15
RECURSIVE connected_outputs_16_from(_, _)
connected_outputs_16_from(int_value, j) ==
    IF j >= NumNodes + 1 THEN <<>>
    ELSE (IF BitSet(int_value, j) THEN <<j + 1>> ELSE <<>>)
         \o connected_outputs_16_from(int_value, j + 1)
connected_outputs_16(int_value) == connected_outputs_16_from(int_value, 0)

connected_outputs(int_value) == connected_outputs_from(int_value, 0)

\* the outer loop over enumerate(first_15_router_entries), from index i on;
\* acc carries the dict and the printed lines
RECURSIVE decode_entries(_, _, _)
decode_entries(entries, i, acc) ==
    IF i > Len(entries) THEN acc
    ELSE LET p == PyIntBase16(entries[i])
         IN  IF ~p.ok
             THEN decode_entries(entries, i + 1,
                      [acc EXCEPT !.out = Append(@, <<"warn_skip", i>>)])
             ELSE decode_entries(entries, i + 1,
                      [d |-> DictSet(acc.d, i, connected_outputs(p.v)),
                       out |-> Append(acc.out, <<"input", i>>)])

\* router_data[:15]
first_15_router_entries(router_data) ==
    SubSeq(router_data, 1, IF Len(router_data) < NumNodes
                           THEN Len(router_data) ELSE NumNodes)

\* the function: None for the four load errors, else the dict
read_and_extract_router_data(file) ==
    IF file.kind \in {"unreadable", "badjson", "nokey", "notlist"}
    THEN [ret |-> None, out |-> <<Msg("router_error")>>]
    ELSE LET r == decode_entries(first_15_router_entries(file.router), 1,
                                 [d |-> <<>>, out |-> <<Msg("header")>>])
         IN  [ret |-> Some(r.d), out |-> r.out]


(***************************************************************************)
(* load_midi_names                                                         *)
(***************************************************************************)
\* str.split(sep)
RECURSIVE Split(_, _)
Split(s, sep) ==
    IF \A k \in 1..Len(s) : s[k] # sep THEN <<s>>
    ELSE LET k == CHOOSE i \in 1..Len(s) :
                      s[i] = sep /\ \A j \in 1..(i - 1) : s[j] # sep
         IN  <<SubSeq(s, 1, k - 1)>> \o Split(SubSeq(s, k + 1, Len(s)), sep)

OrderKey == <<"O", "r", "d", "e", "r">>

\* the loop over raw_names.items(): names[int(key)] = name for the keys
\* int() accepts, from pair k on
RECURSIVE names_from(_, _, _)
names_from(items, k, names) ==
    IF k > Len(items) THEN names
    ELSE LET p == PyIntStr(items[k][1], DecDigits)
         IN  IF p.ok
             THEN names_from(items, k + 1, DictSet(names, p.v, items[k][2].s))
             ELSE names_from(items, k + 1, names)

\* no range validation of the order numbers
InOrderRange_any(num) == TRUE

\* 1 <= num <= 15
InOrderRange(num) == 1 <= num /\ num <= NumNodes

\* the "Order" string to a list: split, strip, int, range filter, and None
\* for an empty result or a ValueError
parse_order(order_str) ==
    LET NonBlank(tok) == Strip(tok) # <<>>
        toks == SelectSeq(Split(order_str, ","), NonBlank)
        parsed == [k \in 1..Len(toks) |-> PyIntStr(Strip(toks[k]), DecDigits)]
        nums == [k \in 1..Len(toks) |-> parsed[k].v]
        filtered == SelectSeq(nums, InOrderRange)
    IN  IF \E k \in 1..Len(toks) : ~parsed[k].ok
        THEN [order |-> None, out |-> <<Msg("warn_order_parse")>>]
        ELSE [order |-> IF filtered = <<>> THEN None ELSE Some(filtered),
              out |-> <<>>]

\* raw_names["Order"] when the key exists, else None
raw_order(items) ==
    IF \E k \in 1..Len(items) : items[k][1] = OrderKey
    THEN Some(items[CHOOSE k \in 1..Len(items) : items[k][1] = OrderKey][2])
    ELSE None

\* what the function returns: the pair (names, order_list), or on the
\* "except Exception" path the bare dict names (line 120)
load_midi_names(file) ==
    IF file.kind = "missing"
    THEN [kind |-> "tuple", names |-> <<>>, order |-> None,
          out |-> <<Msg("warn_names_not_found")>>]
    ELSE IF file.kind \in {"badjson", "notobject"}
    THEN [kind |-> "dict", names |-> <<>>, order |-> None,
          out |-> <<Msg("warn_names_unexpected")>>]
    ELSE LET names == names_from(file.obj, 1, <<>>)
             ro == raw_order(file.obj)
         IN  IF ~ro.isNone /\ ro.val.t = "str"
             THEN LET po == parse_order(ro.val.s)
                  IN  [kind |-> "tuple", names |-> names, order |-> po.order,
                       out |-> Append(po.out, Msg("names_loaded"))]
             ELSE [kind |-> "tuple", names |-> names, order |-> None,
                   out |-> <<>>]


(***************************************************************************)
(* draw_mapping_diagram                                                    *)
(***************************************************************************)
\* sorted(list(S)) of a set of integers
RECURSIVE Sorted(_)
Sorted(S) ==
    IF S = {} THEN <<>>
    ELSE LET m == CHOOSE x \in S : \A y \in S : x <= y
         IN  <<m>> \o Sorted(S \ {m})

\* place_ordered without the "not already placed" test
RECURSIVE place_ordered_replacing(_, _, _)
place_ordered_replacing(order, k, acc) ==
    IF k > Len(order) THEN acc
    ELSE LET node_num == order[k]
         IN  IF 1 <= node_num /\ node_num <= NumNodes
             THEN place_ordered_replacing(order, k + 1,
                      [idx |-> DictSet(acc.idx, node_num, acc.cur),
                       set |-> acc.set \cup {node_num},
                       cur |-> acc.cur + 1])
             ELSE place_ordered_replacing(order, k + 1, acc)

\* the loop over order_list from position k on; acc holds node_to_y_index,
\* ordered_nodes_set and current_y_index
RECURSIVE place_ordered(_, _, _)
place_ordered(order, k, acc) ==
    IF k > Len(order) THEN acc
    ELSE LET node_num == order[k]
         IN  IF 1 <= node_num /\ node_num <= NumNodes
                /\ node_num \notin DOMAIN acc.idx
             THEN place_ordered(order, k + 1,
                      [idx |-> DictSet(acc.idx, node_num, acc.cur),
                       set |-> acc.set \cup {node_num},
                       cur |-> acc.cur + 1])
             ELSE place_ordered(order, k + 1, acc)

\* the loop over remaining_nodes
RECURSIVE place_remaining(_, _, _)
place_remaining(remaining, k, acc) ==
    IF k > Len(remaining) THEN acc
    ELSE LET node_num == remaining[k]
         IN  IF node_num \notin DOMAIN acc.idx
             THEN place_remaining(remaining, k + 1,
                      [acc EXCEPT !.idx = DictSet(@, node_num, acc.cur),
                                  !.cur = @ + 1])
             ELSE place_remaining(remaining, k + 1, acc)

\* node_to_y_index as lines 148-167 build it
resolve_order(ol) ==
    LET start == [idx |-> <<>>, set |-> {}, cur |-> 0]
        placed == IF Truthy(ol) THEN place_ordered(ol.val, 1, start) ELSE start
        remaining_nodes == Sorted(Slots \ placed.set)
    IN  place_remaining(remaining_nodes, 1, placed).idx

\* y = 1.0 - (y_index + 1) * y_spacing with y_spacing = 1 / (num_slots + 1),
\* kept as the numerator over num_slots + 1
YCoord(y_index) == (NumNodes + 1) - (y_index + 1)

input_x == 0
output_x == 1

\* the node loop: the two plotted points of every placed node
RECURSIVE diagram_points(_, _)
diagram_points(idx, node_num) ==
    IF node_num > NumNodes THEN <<>>
    ELSE (IF node_num \in DOMAIN idx
          THEN <<<<input_x, YCoord(idx[node_num])>>,
                 <<output_x, YCoord(idx[node_num])>>>>
          ELSE <<>>)
         \o diagram_points(idx, node_num + 1)

\* the node loop: the two label texts of every placed node whose name is
\* truthy
RECURSIVE diagram_text(_, _, _)
diagram_text(idx, names, node_num) ==
    IF node_num > NumNodes THEN <<>>
    ELSE LET node_label == DictGet(names, node_num)
         IN  (IF node_num \in DOMAIN idx /\ TruthyStr(node_label)
              THEN <<<<"right", YCoord(idx[node_num]), node_label.val>>,
                     <<"left", YCoord(idx[node_num]), node_label.val>>>>
              ELSE <<>>)
             \o diagram_text(idx, names, node_num + 1)

\* the line drawn when either name is truthy
draw_line_either(input_name, output_name) ==
    TruthyStr(input_name) \/ TruthyStr(output_name)

\* line 203: the line is drawn only when both names are truthy
draw_line(input_name, output_name) ==
    TruthyStr(input_name) /\ TruthyStr(output_name)

\* the inner connection loop over output_nums from position k on
RECURSIVE lines_of_input(_, _, _, _, _)
lines_of_input(idx, names, input_num, output_nums, k) ==
    IF k > Len(output_nums) THEN <<>>
    ELSE LET output_num == output_nums[k]
         IN  (IF output_num \in DOMAIN idx
                 /\ draw_line(DictGet(names, input_num), DictGet(names, output_num))
              THEN <<<<YCoord(idx[input_num]), YCoord(idx[output_num])>>>>
              ELSE <<>>)
             \o lines_of_input(idx, names, input_num, output_nums, k + 1)

\* the outer connection loop over mappings.items(), keys in insertion
\* (ascending) order
RECURSIVE diagram_lines(_, _, _, _)
diagram_lines(idx, names, m, keys) ==
    IF keys = <<>> THEN <<>>
    ELSE (IF keys[1] \in DOMAIN idx
          THEN lines_of_input(idx, names, keys[1], m[keys[1]], 1)
          ELSE <<>>)
         \o diagram_lines(idx, names, m, Tail(keys))

\* savefig of the diagram without the try/except
savefig_diagram_uncaught(ok) ==
    IF ok THEN [save |-> "ok", raised |-> FALSE, out |-> <<Msg("diagram_saved")>>]
    ELSE [save |-> "failed", raised |-> TRUE, out |-> <<>>]

\* try: plt.savefig(...) except Exception: print(...) of the diagram
savefig_diagram(ok) ==
    IF ok THEN [save |-> "ok", raised |-> FALSE, out |-> <<Msg("diagram_saved")>>]
    ELSE [save |-> "failed", raised |-> FALSE, out |-> <<Msg("diagram_save_error")>>]

(***************************************************************************)
(* draw_mapping_matrix                                                     *)
(***************************************************************************)
\* {node_num: index for index, node_num in enumerate(display_nodes_ordered)}
RECURSIVE node_to_display_index(_, _, _)
node_to_display_index(order, k, d) ==
    IF k > Len(order) THEN d
    ELSE node_to_display_index(order, k + 1, DictSet(d, order[k], k - 1))

\* str(n) for n >= 0
RECURSIVE DecStr(_)
DecStr(n) ==
    IF n < 10 THEN <<DecDigits[n + 1]>>
    ELSE DecStr(n \div 10) \o <<DecDigits[(n % 10) + 1]>>

\* f"Node {node_num}"
NodeLabel(node_num) == <<"N", "o", "d", "e", " ">> \o DecStr(node_num)

\* midi_names.get(node_num, f"Node {node_num}")
axis_label(names, node_num) ==
    IF node_num \in DOMAIN names THEN names[node_num] ELSE NodeLabel(node_num)

ordered_labels(names, order) ==
    [k \in 1..Len(order) |-> axis_label(names, order[k])]

\* the inner point loop over output_nums from position k on
RECURSIVE points_of_input(_, _, _, _)
points_of_input(d, input_num, output_nums, k) ==
    IF k > Len(output_nums) THEN <<>>
    ELSE (IF output_nums[k] \in DOMAIN d
          THEN <<<<d[input_num], d[output_nums[k]]>>>>
          ELSE <<>>)
         \o points_of_input(d, input_num, output_nums, k + 1)

\* the outer point loop over mappings.items()
RECURSIVE matrix_coords(_, _, _)
matrix_coords(d, m, keys) ==
    IF keys = <<>> THEN <<>>
    ELSE (IF keys[1] \in DOMAIN d
          THEN points_of_input(d, keys[1], m[keys[1]], 1)
          ELSE <<>>)
         \o matrix_coords(d, m, Tail(keys))

\* try: plt.savefig(...) except Exception: print(...) of the matrix
savefig_matrix(ok) ==
    IF ok THEN [save |-> "ok", raised |-> FALSE, out |-> <<Msg("matrix_saved")>>]
    ELSE [save |-> "failed", raised |-> FALSE, out |-> <<Msg("matrix_save_error")>>]


(***************************************************************************)
(* The files a run reads.                                                  *)
(***************************************************************************)
RouterErrorKinds == {"unreadable", "badjson", "nokey", "notlist"}
RouterError(k) == [kind |-> k, router |-> <<>>]
RouterOk(r) == [kind |-> "ok", router |-> r]

\* Router files of the decoding specification: one entry over a rich set of
\* values, or a long list of valid entries with at most two invalid ones
EntryAlphabet == {"0", "7", "8", "g", "-"}
RichEntries ==
    {JStr(s) : s \in SeqsUpTo(EntryAlphabet, MaxEntryLen)} \cup {JNull, JNum}
LongRouters ==
    UNION {{[i \in 1..n |-> IF i \in {a, b} THEN JStr(<<"g">>) ELSE JStr(<<"7">>)]
              : a \in 0..n, b \in 0..n} : n \in 0..MaxRouterLen}
DecodeRouterFiles ==
    {RouterOk(<<e>>) : e \in RichEntries}
    \cup {RouterOk(r) : r \in LongRouters}
    \cup {RouterError(k) : k \in RouterErrorKinds}

\* Router files of a full run
RunEntries == {JStr(<<"7">>), JStr(<<"g">>)}
RunRouterFiles ==
    {RouterOk(r) : r \in SeqsUpTo(RunEntries, MaxRunRouterLen)}
    \cup {RouterError(k) : k \in RouterErrorKinds}

\* Names files of a full run: missing, unreadable, or an object with names
\* for the keys "1" and "2" and an optional "Order" value
NamesFor(key, values) ==
    {<<>>} \cup {<<<<key, JStr(v)>>>> : v \in values}
OrderAlphabet == {"1", "2", ","}
OrderStrings ==
    SeqsUpTo(OrderAlphabet, MaxOrderLen)
    \cup {<<" ", "1", " ">>, <<"1", " ", "2">>, <<"2", ",", " ", "1">>}
OrderItems ==
    {<<>>, <<<<OrderKey, JNum>>>>} \cup {<<<<OrderKey, JStr(s)>>>> : s \in OrderStrings}
NamesObjects ==
    {n1 \o n2 \o o : n1 \in NamesFor(<<"1">>, {<<>>, <<"A">>}),
                     n2 \in NamesFor(<<"2">>, {<<>>, <<"B">>}),
                     o \in OrderItems}
NamesFiles ==
    {[kind |-> "ok", obj |-> o] : o \in NamesObjects}
    \cup {[kind |-> k, obj |-> <<>>] : k \in {"missing", "badjson", "notobject"}}

NamesUnread == [kind |-> "unread", obj |-> <<>>]

(***************************************************************************)
(* The run (the __main__ block).                                           *)
(***************************************************************************)
InitWith(files) ==
    /\ pc = "start"
    /\ router_file \in files
    /\ mappings = None
    /\ names_file = NamesUnread
    /\ midi_names = <<>>
    /\ order_list = None
    /\ node_to_y_index = <<>>
    /\ diag_points = <<>>
    /\ diag_text = <<>>
    /\ diag_lines = <<>>
    /\ diag_save = "none"
    /\ matrix_points = <<>>
    /\ matrix_labels = <<>>
    /\ matrix_save = "none"
    /\ stdout = <<>>

Init == InitWith(RunRouterFiles)

\* line 328: mappings = read_and_extract_router_data(router_json_path)
ReadRouter ==
    /\ pc = "start"
    /\ LET r == read_and_extract_router_data(router_file)
       IN  /\ mappings' = r.ret
           /\ stdout' = stdout \o r.out
    /\ pc' = "loaded"
    /\ UNCHANGED <<router_file, names_file, midi_names, order_list,
                   diagram_vars, matrix_vars>>

\* line 330: "if mappings:" is false, the script ends
SkipAll ==
    /\ pc = "loaded"
    /\ ~Truthy(mappings)
    /\ pc' = "done"
    /\ UNCHANGED <<router_file, mappings, names_file, midi_names, order_list,
                   diagram_vars, matrix_vars, stdout>>

\* line 338: midi_names, order_list = load_midi_names(names_json_path);
\* unpacking the bare dict of the error path raises ValueError (the dict is
\* empty there), which nothing catches
LoadNames ==
    /\ pc = "loaded"
    /\ Truthy(mappings)
    /\ \E file \in NamesFiles :
         LET r == load_midi_names(file)
         IN  /\ names_file' = file
             /\ stdout' = stdout \o r.out
             /\ IF r.kind = "tuple"
                THEN /\ midi_names' = r.names
                     /\ order_list' = r.order
                     /\ pc' = "names"
                ELSE /\ UNCHANGED <<midi_names, order_list>>
                     /\ pc' = "crashed"
    /\ UNCHANGED <<router_file, mappings, diagram_vars, matrix_vars>>

\* the keys of a dict in insertion order (the decoder inserts ascending)
Keys(d) == Sorted(DOMAIN d)

\* lines 361-363: draw_mapping_diagram(...)
DrawDiagram ==
    /\ pc = "names"
    /\ IF ~Truthy(mappings)
       THEN /\ stdout' = stdout \o <<Msg("attempt_diagram"), Msg("diagram_no_mappings")>>
            /\ pc' = "diagram_done"
            /\ UNCHANGED diagram_vars
       ELSE \E ok \in BOOLEAN :
              LET idx == resolve_order(order_list)
                  sv == savefig_diagram(ok)
              IN  /\ node_to_y_index' = idx
                  /\ diag_points' = diagram_points(idx, 1)
                  /\ diag_text' = diagram_text(idx, midi_names, 1)
                  /\ diag_lines' = diagram_lines(idx, midi_names, mappings.val,
                                                 Keys(mappings.val))
                  /\ diag_save' = sv.save
                  /\ stdout' = stdout \o <<Msg("attempt_diagram")>> \o sv.out
                  /\ pc' = IF sv.raised THEN "crashed" ELSE "diagram_done"
    /\ UNCHANGED <<router_file, mappings, names_file, midi_names, order_list,
                   matrix_vars>>

\* lines 365-367: draw_mapping_matrix(...)
DrawMatrix ==
    /\ pc = "diagram_done"
    /\ IF ~Truthy(mappings)
       THEN /\ stdout' = stdout \o <<Msg("attempt_matrix"), Msg("matrix_no_mappings")>>
            /\ pc' = "done"
            /\ UNCHANGED matrix_vars
       ELSE IF ~Truthy(order_list)
       THEN /\ stdout' = stdout \o <<Msg("attempt_matrix"), Msg("matrix_no_order")>>
            /\ pc' = "done"
            /\ UNCHANGED matrix_vars
       ELSE \E ok \in BOOLEAN :
              LET d == node_to_display_index(order_list.val, 1, <<>>)
                  sv == savefig_matrix(ok)
              IN  /\ matrix_labels' = ordered_labels(midi_names, order_list.val)
                  /\ matrix_points' = matrix_coords(d, mappings.val, Keys(mappings.val))
                  /\ matrix_save' = sv.save
                  /\ stdout' = stdout \o <<Msg("attempt_matrix")>> \o sv.out
                  /\ pc' = IF sv.raised THEN "crashed" ELSE "done"
    /\ UNCHANGED <<router_file, mappings, names_file, midi_names, order_list,
                   diagram_vars>>

Next == ReadRouter \/ SkipAll \/ LoadNames \/ DrawDiagram \/ DrawMatrix

Spec == Init /\ [][Next]_vars

\* The decoder alone, on the router files of the decoding specification
InitDecode == InitWith(DecodeRouterFiles)
NextDecode == ReadRouter
SpecDecode == InitDecode /\ [][NextDecode]_vars


\* draw_mapping_diagram alone, called with any order list
OrderValues == {0, 2, 5, 15, 16, 20}
OrderLists == {None} \cup {Some(l) : l \in SeqsUpTo(OrderValues, MaxOrderListLen)}
InitOrder ==
    /\ pc = "names"
    /\ router_file = RouterOk(<<JStr(<<"7">>)>>)
    /\ mappings = read_and_extract_router_data(router_file).ret
    /\ names_file = [kind |-> "missing", obj |-> <<>>]
    /\ midi_names = <<>>
    /\ order_list \in OrderLists
    /\ node_to_y_index = <<>>
    /\ diag_points = <<>>
    /\ diag_text = <<>>
    /\ diag_lines = <<>>
    /\ diag_save = "none"
    /\ matrix_points = <<>>
    /\ matrix_labels = <<>>
    /\ matrix_save = "none"
    /\ stdout = read_and_extract_router_data(router_file).out
                \o load_midi_names(names_file).out
NextOrder == DrawDiagram
SpecOrder == InitOrder /\ [][NextOrder]_vars

(***************************************************************************)
(* Properties.                                                             *)
(***************************************************************************)
Printed(tag) == \E k \in 1..Len(stdout) : stdout[k][1] = tag
Count(seq, x) == Cardinality({k \in 1..Len(seq) : seq[k] = x})
\* position of the first occurrence of s in l
FirstPos(l, s) == CHOOSE k \in 1..Len(l) : l[k] = s /\ \A j \in 1..(k - 1) : l[j] # s
\* rank by first occurrence among the distinct values of l
FirstRank(l, s) ==
    Cardinality({t \in SeqRange(l) : FirstPos(l, t) < FirstPos(l, s)})
ListOf(ol) == IF ol.isNone THEN <<>> ELSE ol.val
Terminated == pc \in {"done", "crashed"}
DiagramDrawn == diag_save # "none"
MatrixDrawn == matrix_save # "none"
Named(s) == s \in DOMAIN midi_names /\ midi_names[s] # <<>>
Edges == {<<i, o>> \in Slots \X Slots :
            i \in DOMAIN mappings.val /\ o \in SeqRange(mappings.val[i])}

\* C1: whatever the order list (absent, empty, partial, with repeats or
\* with values outside 1..15), the slot-to-rank map of the node-link
\* diagram is a bijection from the 15 slots onto 0..14; the in-range listed
\* slots get ranks 0,1,2,... by first occurrence and the unlisted slots
\* the remaining ranks in ascending numeric order.
C1_OrderBijection ==
    DiagramDrawn =>
        LET l == ListOf(order_list)
            listed == SeqRange(l) \cap Slots
            inrange == SelectSeq(l, LAMBDA v : v \in Slots)
        IN  /\ DOMAIN node_to_y_index = Slots
            /\ {node_to_y_index[s] : s \in Slots} = 0..(NumNodes - 1)
            /\ \A s \in Slots : \A t \in Slots :
                   node_to_y_index[s] = node_to_y_index[t] => s = t
            /\ \A s \in listed : node_to_y_index[s] = FirstRank(inrange, s)
            /\ \A s \in Slots \ listed :
                   node_to_y_index[s] =
                       Cardinality(listed)
                       + Cardinality({t \in Slots \ listed : t < s})
            /\ (l = <<>> => \A s \in Slots : node_to_y_index[s] = s - 1)

C1_Witness ==
    /\ DiagramDrawn
    /\ order_list = Some(<<5, 2, 5, 20>>)
    /\ node_to_y_index[5] = 0
    /\ node_to_y_index[2] = 1
    /\ node_to_y_index[1] = 2
    /\ node_to_y_index[15] = 14


RECURSIVE SumPow2(_)
SumPow2(outs) ==
    IF outs = <<>> THEN 0 ELSE 2^(outs[1] - 1) + SumPow2(Tail(outs))

\* C2: for every router entry among the first 15 that parses as a base-16
\* integer v, the stored output list is strictly ascending, lies in 1..15
\* and holds exactly the bits 0..14 of v (its outputs sum, as powers of
\* two, to v modulo 2^15), so bits 15 and above contribute nothing; "7"
\* gives [1,2,3] and "0" gives the empty list.
C2_BitExact ==
    (pc = "loaded" /\ router_file.kind = "ok") =>
        \A i \in DOMAIN mappings.val :
            LET entry == router_file.router[i]
                v == PyIntBase16(entry).v
                outs == mappings.val[i]
            IN  /\ PyIntBase16(entry).ok
                /\ \A k \in 1..Len(outs) : outs[k] \in Slots
                /\ \A k \in 1..(Len(outs) - 1) : outs[k] < outs[k + 1]
                /\ SumPow2(outs) = v % (2^NumNodes)
                /\ (entry = JStr(<<"7">>) => outs = <<1, 2, 3>>)
                /\ (entry = JStr(<<"0">>) => outs = <<>>)

C2_Witness ==
    /\ pc = "loaded"
    /\ router_file = RouterOk(<<JStr(<<"8", "0", "0", "7">>)>>)
    /\ mappings = Some(<<<<1, 2, 3>>>>)

\* C3: the decoded Mapping has a key for input slot i exactly when i <= 15
\* and the i-th router entry decodes to a non-negative base-16 integer;
\* every other entry is skipped with no key.
C3_KeyIffNonNegative ==
    (pc = "loaded" /\ router_file.kind = "ok") =>
        \A i \in 1..(MaxRouterLen + 1) :
            (i \in DOMAIN mappings.val) <=>
                /\ i <= NumNodes
                /\ i <= Len(router_file.router)
                /\ PyIntBase16(router_file.router[i]).ok
                /\ PyIntBase16(router_file.router[i]).v >= 0

\* C4: with a non-empty order list, the matrix has exactly one point per
\* Mapping edge whose two endpoints occur in the order list, placed at the
\* ranks the first occurrences of the endpoints give (the ranks of the
\* node-link diagram), and no other point.
C4_MatrixFirstOccurrence ==
    MatrixDrawn =>
        LET l == order_list.val
        IN  /\ \A s \in SeqRange(l) : FirstRank(l, s) = node_to_y_index[s]
            /\ \A x \in 0..Len(l) : \A y \in 0..Len(l) :
                   Count(matrix_points, <<x, y>>) =
                       Cardinality({e \in Edges :
                           /\ e[1] \in SeqRange(l) /\ e[2] \in SeqRange(l)
                           /\ FirstRank(l, e[1]) = x
                           /\ FirstRank(l, e[2]) = y})
            /\ Len(matrix_points) =
                   Cardinality({e \in Edges :
                       e[1] \in SeqRange(l) /\ e[2] \in SeqRange(l)})

\* C5: the node-link diagram plots all 15 slots on both sides, writes a
\* label exactly for the slots with a non-empty name, and draws the line
\* of a Mapping edge exactly when both its endpoints have a non-empty name.
C5_NodeLinkFilter ==
    DiagramDrawn =>
        LET Y(s) == YCoord(node_to_y_index[s])
        IN  /\ Len(diag_points) = 2 * NumNodes
            /\ \A s \in Slots :
                   /\ Count(diag_points, <<input_x, Y(s)>>) = 1
                   /\ Count(diag_points, <<output_x, Y(s)>>) = 1
            /\ Len(diag_text) = 2 * Cardinality({s \in Slots : Named(s)})
            /\ \A s \in Slots :
                   Named(s) =>
                       /\ Count(diag_text, <<"right", Y(s), midi_names[s]>>) = 1
                       /\ Count(diag_text, <<"left", Y(s), midi_names[s]>>) = 1
            /\ Len(diag_lines) =
                   Cardinality({e \in Edges : Named(e[1]) /\ Named(e[2])})
            /\ \A i \in Slots : \A o \in Slots :
                   Count(diag_lines, <<Y(i), Y(o)>>) =
                       IF <<i, o>> \in Edges /\ Named(i) /\ Named(o) THEN 1 ELSE 0

C5_Witness ==
    /\ DiagramDrawn
    /\ mappings = Some(<<<<1, 2, 3>>>>)
    /\ DOMAIN midi_names = {1, 2}
    /\ midi_names[1] = <<"A">>
    /\ midi_names[2] = <<"B">>
    /\ diag_lines = <<<<YCoord(node_to_y_index[1]), YCoord(node_to_y_index[1])>>,
                      <<YCoord(node_to_y_index[1]), YCoord(node_to_y_index[2])>>>>

NaturalOrder == [s \in Slots |-> s - 1]

\* C6: when the names file exists but is unreadable, the run does not
\* abort: it goes on with no names and no order, attempts the node-link
\* image in natural order and only skips the matrix image.
C6_UnreadableNamesProceeds ==
    names_file.kind \in {"badjson", "notobject"} =>
        /\ pc # "crashed"
        /\ (pc = "done" =>
               /\ DiagramDrawn
               /\ node_to_y_index = NaturalOrder
               /\ diag_text = <<>>
               /\ ~MatrixDrawn)

\* C7: a run ends with no image attempted only in the four fatal
\* router-load cases; when 'Router' is a list the node-link image is
\* attempted, also when the list is empty or no entry decodes.
C7_OnlyFatalLoadsSkipDiagram ==
    (pc = "done" /\ ~DiagramDrawn) => router_file.kind \in RouterErrorKinds

\* strings of the "Order" key whose numbers all parse and all lie outside
\* 1..15 (none at all included)
EmptyAfterDiscard(order_str) ==
    \A k \in 1..Len(Split(order_str, ",")) :
        LET tok == Strip(Split(order_str, ",")[k])
        IN  tok # <<>> =>
                /\ PyIntStr(tok, DecDigits).ok
                /\ PyIntStr(tok, DecDigits).v \notin Slots
NoUsableOrder ==
    \/ names_file.kind = "missing"
    \/ /\ names_file.kind = "ok"
       /\ \/ raw_order(names_file.obj).isNone
          \/ /\ raw_order(names_file.obj).val.t = "str"
             /\ EmptyAfterDiscard(raw_order(names_file.obj).val.s)

\* C8: with no usable order (names file missing, no "Order" key, or an
\* Order string empty after discarding values outside 1..15) the matrix
\* gets no points and no image and the skip is reported, and the
\* node-link diagram of the same run is drawn in natural order.
C8_NoOrderSkipsMatrixOnly ==
    NoUsableOrder =>
        /\ pc # "crashed"
        /\ order_list.isNone
        /\ ~MatrixDrawn
        /\ matrix_points = <<>>
        /\ matrix_labels = <<>>
        /\ (pc = "done" =>
               /\ Printed("matrix_no_order")
               /\ DiagramDrawn
               /\ Len(diag_points) = 2 * NumNodes
               /\ node_to_y_index = NaturalOrder)

C8_Witness ==
    /\ pc = "done"
    /\ names_file.kind = "ok"
    /\ raw_order(names_file.obj) = Some(JStr(<<"2", "2">>))
    /\ Printed("matrix_no_order")
    /\ DiagramDrawn

FirstPrinted(tag) == CHOOSE k \in 1..Len(stdout) : stdout[k][1] = tag

\* C9: in every run that reaches the drawing stage the node-link image is
\* attempted first and the matrix image after it, whether the node-link
\* save succeeded or failed; a failed save of either image is reported
\* and neither prevents the other attempt nor ends the run early.
C9_ArtifactsIndependent ==
    /\ (Terminated /\ Printed("attempt_diagram")) =>
           /\ Printed("attempt_matrix")
           /\ FirstPrinted("attempt_diagram") < FirstPrinted("attempt_matrix")
    /\ Printed("attempt_matrix") => Printed("attempt_diagram")
    /\ pc = "diagram_done" => ENABLED DrawMatrix
    /\ diag_save = "failed" =>
           /\ pc \in {"diagram_done", "done"}
           /\ Printed("diagram_save_error")
    /\ matrix_save = "failed" =>
           /\ pc = "done"
           /\ Printed("matrix_save_error")
    /\ (pc = "done" /\ DiagramDrawn /\ Truthy(order_list)) => MatrixDrawn

C9_Witness ==
    /\ pc = "done"
    /\ diag_save = "failed"
    /\ matrix_save = "ok"
    /\ Printed("diagram_save_error")
    /\ Printed("matrix_saved")

\* C10: every slot the matrix displays gets a label on both axes, its
\* name when it has one and "Node {n}" otherwise, so that no displayed
\* slot is left without label text, also when its name is the empty string.
C10_EveryAxisLabelled ==
    MatrixDrawn =>
        /\ Len(matrix_labels) = Len(order_list.val)
        /\ \A k \in 1..Len(matrix_labels) :
               /\ matrix_labels[k] # <<>>
               /\ matrix_labels[k] =
                      IF Named(order_list.val[k])
                      THEN midi_names[order_list.val[k]]
                      ELSE NodeLabel(order_list.val[k])

====
